---- MODULE Spec2Model ----
(***************************************************************************)
(* The workout log of fitness_tracker_app.py: the NumPy record array       *)
(* session_log, the handlers that add, update and delete its rows, the CSV *)
(* load at start-up and save at shutdown, and calculate_total_volume.      *)
(*                                                                         *)
(* A Python str is a sequence of one-character strings.  A Python int is   *)
(* kept as sign and magnitude in four 16-bit limbs, so that literals       *)
(* beyond 32 bits are parsed as Python parses them.  A float is kept       *)
(* exactly: the literal n/D as parsed, the float32 field as m * 2^e with a *)
(* 24-bit m, the float64 volume as a two's-complement fixed-point number.  *)
(***************************************************************************)
EXTENDS Integers, Sequences, FiniteSets, TLC

(* ------------------------------ bounds -------------------------------- *)

\* Most rows the session lets the log grow to (add is not offered beyond).
MaxRecords == 2

(* ------------------------------- text --------------------------------- *)

Digits == <<"0", "1", "2", "3", "4", "5", "6", "7", "8", "9">>

IsDigit(c) == \E d \in 1..10 : Digits[d] = c

DigitVal(c) == (CHOOSE d \in 1..10 : Digits[d] = c) - 1

\* The only whitespace of the input alphabet is the blank.
IsSpace(c) == c = " "

RECURSIVE LStrip(_)
LStrip(s) == IF s # <<>> /\ IsSpace(Head(s)) THEN LStrip(Tail(s)) ELSE s

RECURSIVE RStrip(_)
RStrip(s) ==
  IF s # <<>> /\ IsSpace(s[Len(s)]) THEN RStrip(SubSeq(s, 1, Len(s) - 1)) ELSE s

\* str.strip()
Strip(s) == RStrip(LStrip(s))

AllDigits(s) == \A i \in 1..Len(s) : IsDigit(s[i])

\* A NumPy 'U<n>' field keeps the first n characters of what is assigned.
CastU(s, n) == IF Len(s) > n THEN SubSeq(s, 1, n) ELSE s

(* --------------------------- Python integers -------------------------- *)

B16 == 2^16

Zero4 == <<0, 0, 0, 0>>

\* mag * 10 + d on four 16-bit limbs (least significant first); over: the
\* magnitude no longer fits 64 bits.
MagStep(acc, d) ==
  LET t1 == acc.mag[1] * 10 + d
      t2 == acc.mag[2] * 10 + (t1 \div B16)
      t3 == acc.mag[3] * 10 + (t2 \div B16)
      t4 == acc.mag[4] * 10 + (t3 \div B16)
  IN  [mag  |-> <<t1 % B16, t2 % B16, t3 % B16, t4 % B16>>,
       over |-> acc.over \/ t4 >= B16]

RECURSIVE MagOfDigits(_, _)
MagOfDigits(s, acc) ==
  IF s = <<>> THEN acc ELSE MagOfDigits(Tail(s), MagStep(acc, DigitVal(Head(s))))

PyIntBad == [ok |-> FALSE, neg |-> FALSE, mag |-> Zero4, over |-> FALSE]

\* int(s): blanks around, an optional sign, then decimal digits; anything
\* else raises ValueError (ok = FALSE).
PyIntOfMag(neg, a) ==
  [ok |-> TRUE, neg |-> neg /\ (a.mag # Zero4 \/ a.over), mag |-> a.mag, over |-> a.over]

PyIntOfBody(neg, body) ==
  IF body = <<>> \/ ~AllDigits(body)
  THEN PyIntBad
  ELSE PyIntOfMag(neg, MagOfDigits(body, [mag |-> Zero4, over |-> FALSE]))

PyIntOfStripped(t) ==
  IF t # <<>> /\ Head(t) \in {"-", "+"}
  THEN PyIntOfBody(Head(t) = "-", Tail(t))
  ELSE PyIntOfBody(FALSE, t)

PyInt(s) == PyIntOfStripped(Strip(s))

\* p <= 0 for a Python int.
PyIntLeqZero(p) == p.neg \/ (p.mag = Zero4 /\ ~p.over)

\* p is in [-2^31, 2^31).
FitsI4(p) ==
  /\ ~p.over
  /\ p.mag[4] = 0
  /\ p.mag[3] = 0
  /\ \/ p.mag[2] < 2^15
     \/ p.neg /\ p.mag[2] = 2^15 /\ p.mag[1] = 0

\* p is in [-2^63, 2^63): what PyLong_AsLong converts.
FitsCLong(p) ==
  /\ ~p.over
  /\ \/ p.mag[4] < 2^15
     \/ p.neg /\ p.mag[4] = 2^15 /\ p.mag[3] = 0 /\ p.mag[2] = 0 /\ p.mag[1] = 0

\* The signed 32-bit value of the two halves (hi, lo) of a 32-bit word.
Signed32(hi, lo) == IF hi >= 2^15 THEN (hi - B16) * B16 + lo ELSE hi * B16 + lo

\* The low 32 bits of p, read as a signed 32-bit integer: (npy_int) of a C long.
Low32(p) ==
  IF ~p.neg
  THEN Signed32(p.mag[2], p.mag[1])
  ELSE IF p.mag[1] = 0
       THEN Signed32((B16 - p.mag[2]) % B16, 0)
       ELSE Signed32((B16 - 1 - p.mag[2]) % B16, B16 - p.mag[1])

\* Assigning the Python int p to an 'i4' field.  In range: the value.  Out
\* of range but within a C long: the wrapped value (NumPy 1.x, wraps) or
\* OverflowError (NumPy 2); beyond a C long: OverflowError.  err = TRUE for
\* the exception.
CastI4(p, wraps) ==
  IF FitsI4(p) \/ (FitsCLong(p) /\ wraps)
  THEN [err |-> FALSE, v |-> Low32(p)]
  ELSE [err |-> TRUE, v |-> 0]

\* The halves of the 32-bit word of the signed 32-bit integer a.
Hi16(a) == (a \div B16) % B16

Lo16(a) == a % B16

\* x * y modulo 2^16, for 0 <= x, y < 2^16.
MulLo16(x, y) == (((x * (y \div 256)) % 256) * 256 + x * (y % 256)) % B16

\* x * y \div 2^16, for 0 <= x, y < 2^16.
MulHi16(x, y) ==
  LET p == x * (y \div 256)
      q == x * (y % 256)
  IN  (p \div 256) + (((p % 256) * 256 + q) \div B16)

\* a * b on 32-bit signed integers, as the int32 array product wraps.
Mul32(a, b) ==
  Signed32((MulHi16(Lo16(a), Lo16(b)) + MulLo16(Hi16(a), Lo16(b))
              + MulLo16(Lo16(a), Hi16(b))) % B16,
           MulLo16(Lo16(a), Lo16(b)))

\* str(v) of a signed 32-bit integer.
RECURSIVE NatToStr(_)
NatToStr(n) ==
  IF n < 10 THEN <<Digits[n + 1]>> ELSE Append(NatToStr(n \div 10), Digits[(n % 10) + 1])

IntToStr(v) ==
  IF v >= 0
  THEN NatToStr(v)
  ELSE LET u    == -(v + 1)
           high == (u \div 10) + (IF u % 10 = 9 THEN 1 ELSE 0)
           last == ((u % 10) + 1) % 10
       IN  <<"-">> \o (IF high = 0 THEN <<>> ELSE NatToStr(high)) \o <<Digits[last + 1]>>

(* ---------------------------- Python floats --------------------------- *)

PyFloatBad == [ok |-> FALSE, nan |-> FALSE, neg |-> FALSE, n |-> 0, D |-> 1]

\* The value of a digit string (of at most nine digits, the literals of the
\* model's inputs).
RECURSIVE NatOfDigits(_, _)
NatOfDigits(s, acc) ==
  IF s = <<>> THEN acc ELSE NatOfDigits(Tail(s), acc * 10 + DigitVal(Head(s)))

\* The position of the first "." of s, or 0.
DotAt(s) ==
  IF \E i \in 1..Len(s) : s[i] = "."
  THEN CHOOSE i \in 1..Len(s) : s[i] = "." /\ \A j \in 1..(i - 1) : s[j] # "."
  ELSE 0

\* float(s) for the literals of the input alphabet: blanks around, an
\* optional sign, then "nan" or decimal digits with at most one "." (at
\* least one digit); anything else raises ValueError (ok = FALSE).  The
\* value is n / D, kept exactly.  Exponent forms and "inf" use letters that
\* are not in the numeric inputs of the model.
PyFloatOfDigits(neg, ds, places) ==
  IF ds = <<>> \/ ~AllDigits(ds)
  THEN PyFloatBad
  ELSE [ok |-> TRUE, nan |-> FALSE, neg |-> neg, n |-> NatOfDigits(ds, 0), D |-> 10^places]

PyFloatOfDot(neg, body, dot) ==
  IF dot = 0
  THEN PyFloatOfDigits(neg, body, 0)
  ELSE PyFloatOfDigits(neg,
                       SubSeq(body, 1, dot - 1) \o SubSeq(body, dot + 1, Len(body)),
                       Len(body) - dot)

PyFloatOfBody(neg, body) ==
  IF body = <<"n", "a", "n">>
  THEN [ok |-> TRUE, nan |-> TRUE, neg |-> neg, n |-> 0, D |-> 1]
  ELSE PyFloatOfDot(neg, body, DotAt(body))

PyFloatOfStripped(t) ==
  IF t # <<>> /\ Head(t) \in {"-", "+"}
  THEN PyFloatOfBody(Head(t) = "-", Tail(t))
  ELSE PyFloatOfBody(FALSE, t)

PyFloat(s) == PyFloatOfStripped(Strip(s))

\* x < 0 for a Python float: false for -0.0 and for nan.
PyFloatLtZero(x) == ~x.nan /\ x.neg /\ x.n > 0

\* (q + r/D) * 2^e with q brought up to 24 bits.
RECURSIVE ScaleUp(_, _, _, _)
ScaleUp(q, r, D, e) ==
  IF q >= 2^23
  THEN [q |-> q, r |-> r, D |-> D, e |-> e]
  ELSE ScaleUp(2 * q + ((2 * r) \div D), (2 * r) % D, D, e - 1)

\* (q + r/D) * 2^e with q brought down to 24 bits.
RECURSIVE ScaleDown(_, _, _, _)
ScaleDown(q, r, D, e) ==
  IF q < 2^24
  THEN [q |-> q, r |-> r, D |-> D, e |-> e]
  ELSE ScaleDown(q \div 2, (q % 2) * D + r, 2 * D, e + 1)

\* Round to nearest, ties to even, and renormalise.
RoundEven(x) ==
  LET up == 2 * x.r > x.D \/ (2 * x.r = x.D /\ x.q % 2 = 1)
      q1 == IF up THEN x.q + 1 ELSE x.q
  IN  IF q1 = 2^24 THEN [m |-> 2^23, e |-> x.e + 1] ELSE [m |-> q1, e |-> x.e]

\* Assigning the Python float x to an 'f4' field: the nearest float32,
\* sign * m * 2^e with 2^23 <= m < 2^24, or m = 0.  (Normal range only: the
\* inputs of the model are neither subnormal nor beyond float32.)
F4Of(neg, z) == [nan |-> FALSE, neg |-> neg, m |-> z.m, e |-> z.e]

CastF4(x) ==
  IF x.nan
  THEN [nan |-> TRUE, neg |-> FALSE, m |-> 0, e |-> 0]
  ELSE IF x.n = 0
       THEN [nan |-> FALSE, neg |-> x.neg, m |-> 0, e |-> 0]
       ELSE IF x.n \div x.D >= 2^24
            THEN F4Of(x.neg, RoundEven(ScaleDown(x.n \div x.D, x.n % x.D, x.D, 0)))
            ELSE F4Of(x.neg, RoundEven(ScaleUp(x.n \div x.D, x.n % x.D, x.D, 0)))

\* w >= 0 for a float32 (true for -0.0, false for nan).
F4GeqZero(w) == ~w.nan /\ (~w.neg \/ w.m = 0)

\* |w| in hundredths with the remainder dropped.
CentsTruncated(w) ==
  LET N == w.m * 100
      k == -w.e
  IN  IF k <= 0 THEN N * 2^(-k) ELSE IF k > 30 THEN 0 ELSE N \div 2^k

\* |w| in hundredths, rounded to nearest, ties to even: what "%.2f" prints of
\* the exact value (|w| < 2^24, the range of the model's inputs).
Cents(w) ==
  LET N == w.m * 100
      k == -w.e
  IN  IF k <= 0
      THEN N * 2^(-k)
      ELSE IF k > 31
           THEN 0
           ELSE IF k = 31
                THEN (IF N > 2^30 THEN 1 ELSE 0)
                ELSE LET q    == N \div 2^k
                         r    == N % 2^k
                         half == 2^(k - 1)
                     IN  IF r > half \/ (r = half /\ q % 2 = 1) THEN q + 1 ELSE q

\* f"{w:.2f}"
FormatCents(neg, c) ==
  (IF neg THEN <<"-">> ELSE <<>>)
    \o NatToStr(c \div 100)
    \o <<".", Digits[((c \div 10) % 10) + 1], Digits[(c % 10) + 1]>>

FormatF2(w) == IF w.nan THEN <<"n", "a", "n">> ELSE FormatCents(w.neg, Cents(w))

(* ----------------------- float64 volume, exactly ---------------------- *)

\* A number is eleven 12-bit limbs, least significant first, in two's
\* complement, counting units of 2^-36: three limbs of fraction.
WB == 2^12

WLimbs == 1..11

WZero == [i \in WLimbs |-> 0]

\* Carry propagation: any integer coefficients to limbs in 0..WB-1.
RECURSIVE WCarry(_, _, _)
WCarry(f, i, c) ==
  IF i > 11
  THEN f
  ELSE WCarry([f EXCEPT ![i] = (f[i] + c) % WB], i + 1, (f[i] + c) \div WB)

WNorm(f) == WCarry(f, 1, 0)

WAdd(a, b) == WNorm([i \in WLimbs |-> a[i] + b[i]])

\* a * p for a signed 32-bit p.
WMulInt(a, p) ==
  LET p0 == p % WB
      p1 == (p \div WB) % WB
      p2 == p \div (WB * WB)
      at(i) == IF i >= 1 THEN a[i] ELSE 0
  IN  WNorm([i \in WLimbs |-> at(i) * p0 + at(i - 1) * p1 + at(i - 2) * p2])

WNeg(a) == WNorm([i \in WLimbs |-> -a[i]])

\* The float32 w (not nan; zero or 2^-13 <= |w| < 2^24) in units of 2^-36:
\* m * 2^(e + 36), its limbs shifted up by whole limbs.
WOfF4(w) ==
  LET s   == w.e + 36
      k   == 2^(s % 12)
      j   == s \div 12
      a0  == (w.m % WB) * k
      a1  == (w.m \div WB) * k + (a0 \div WB)
      low == <<a0 % WB, a1 % WB, (a1 \div WB) % WB, a1 \div (WB * WB)>>
      mag == [i \in WLimbs |-> IF i > j /\ i <= j + 4 THEN low[i - j] ELSE 0]
  IN  IF w.m = 0 THEN WZero ELSE IF w.neg THEN WNeg(mag) ELSE mag

\* The integer v in units of 2^-36.
WOfInt(v) == WNorm([i \in WLimbs |-> IF i = 4 THEN v ELSE 0])

(* -------------------------------- csv -------------------------------- *)

\* csv.writer, excel dialect, QUOTE_MINIMAL: a field holding the delimiter,
\* the quote character or a line break is quoted, its quotes doubled.
NeedsQuote(f) == \E i \in 1..Len(f) : f[i] \in {",", "\"", "\n", "\r"}

RECURSIVE DoubleQuotes(_)
DoubleQuotes(f) ==
  IF f = <<>>
  THEN <<>>
  ELSE (IF Head(f) = "\"" THEN <<"\"", "\"">> ELSE <<Head(f)>>) \o DoubleQuotes(Tail(f))

CsvField(f) == IF NeedsQuote(f) THEN <<"\"">> \o DoubleQuotes(f) \o <<"\"">> ELSE f

RECURSIVE JoinFields(_)
JoinFields(fs) ==
  IF Len(fs) = 1
  THEN CsvField(fs[1])
  ELSE CsvField(Head(fs)) \o <<",">> \o JoinFields(Tail(fs))

\* writer.writerow(fields): one line of text (the line terminator is the
\* boundary between two lines of the file).
CsvWriteRow(fs) ==
  IF fs = <<>> THEN <<>>
  ELSE IF fs = << <<>> >> THEN <<"\"", "\"">>
  ELSE JoinFields(fs)

\* csv.reader's state machine over the characters of one line (non-strict,
\* doublequote): st is the parser state, cur the field being read, fs the
\* fields read so far.
RECURSIVE CsvLine(_, _, _, _)
CsvLine(s, st, cur, fs) ==
  IF s = <<>>
  THEN [st |-> st, cur |-> cur, fs |-> fs]
  ELSE LET c == Head(s)
           t == Tail(s)
       IN  CASE st \in {"START_RECORD", "START_FIELD"} ->
                  IF c = "\"" THEN CsvLine(t, "IN_QUOTED_FIELD", <<>>, fs)
                  ELSE IF c = "," THEN CsvLine(t, "START_FIELD", <<>>, Append(fs, <<>>))
                  ELSE CsvLine(t, "IN_FIELD", <<c>>, fs)
             [] st = "IN_FIELD" ->
                  IF c = "," THEN CsvLine(t, "START_FIELD", <<>>, Append(fs, cur))
                  ELSE CsvLine(t, "IN_FIELD", Append(cur, c), fs)
             [] st = "IN_QUOTED_FIELD" ->
                  IF c = "\"" THEN CsvLine(t, "QUOTE_IN_QUOTED_FIELD", cur, fs)
                  ELSE CsvLine(t, "IN_QUOTED_FIELD", Append(cur, c), fs)
             [] st = "QUOTE_IN_QUOTED_FIELD" ->
                  IF c = "\"" THEN CsvLine(t, "IN_QUOTED_FIELD", Append(cur, c), fs)
                  ELSE IF c = "," THEN CsvLine(t, "START_FIELD", <<>>, Append(fs, cur))
                  ELSE CsvLine(t, "IN_FIELD", Append(cur, c), fs)

\* The rows csv.reader yields for the lines of a file.  A line that ends
\* inside a quoted field continues on the next line; at the end of the file
\* the open field is kept.
RECURSIVE CsvRows(_, _, _, _), CsvAfterLine(_, _)
CsvRows(lines, st, cur, fs) ==
  IF lines = <<>>
  THEN (IF st = "IN_QUOTED_FIELD" THEN << Append(fs, cur) >> ELSE <<>>)
  ELSE CsvAfterLine(Tail(lines), CsvLine(Head(lines), st, cur, fs))

\* r is the parser after a line, rest the lines that follow it.
CsvAfterLine(rest, r) ==
  CASE r.st = "IN_QUOTED_FIELD" ->
         CsvRows(rest, "IN_QUOTED_FIELD", Append(r.cur, "\n"), r.fs)
    [] r.st = "START_RECORD" ->
         << <<>> >> \o CsvRows(rest, "START_RECORD", <<>>, <<>>)
    [] OTHER ->
         << Append(r.fs, r.cur) >> \o CsvRows(rest, "START_RECORD", <<>>, <<>>)

CsvReader(lines) == CsvRows(lines, "START_RECORD", <<>>, <<>>)

(* ------------------------------- records ------------------------------ *)

\* DTYPE: ('date', 'U10'), ('exercise', 'U30'), ('sets', 'i4'),
\* ('reps', 'i4'), ('weight', 'f4')
DateLen == 10

ExerciseLen == 30

\* calculate_total_volume: 0.0 for the empty array, else
\* np.sum(sets * reps * weight): the int32 product wraps, the product with
\* the float32 column and the sum are float64.  On the rows the inputs of
\* the model produce every float64 operation is exact, so the value is kept
\* exactly; nan when a weight is nan.
RECURSIVE SumVolume(_)
SumVolume(log) ==
  IF log = <<>>
  THEN WZero
  ELSE LET r == log[Len(log)]
       IN  WAdd(SumVolume(SubSeq(log, 1, Len(log) - 1)),
                WMulInt(WOfF4(r.weight), Mul32(r.sets, r.reps)))

calculate_total_volume(log) ==
  IF Len(log) = 0
  THEN [nan |-> FALSE, v |-> WZero]
  ELSE IF \E i \in 1..Len(log) : log[i].weight.nan
       THEN [nan |-> TRUE, v |-> WZero]
       ELSE [nan |-> FALSE, v |-> SumVolume(log)]

(* -------------------------------- inputs ------------------------------ *)

HeaderFields ==
  << <<"d", "a", "t", "e">>, <<"e", "x", "e", "r", "c", "i", "s", "e">>, <<"s", "e", "t", "s">>,
     <<"r", "e", "p", "s">>, <<"w", "e", "i", "g", "h", "t">> >>

Form(d, x, s, r, w) == [date |-> d, exercise |-> x, sets |-> s, reps |-> r, weight |-> w]

Day1 == <<"2", "0", "2", "4", "-", "0", "1", "-", "0", "1">>

\* Eleven characters: one more than the date field holds.
DayLong == <<"2", "0", "2", "4", "-", "0", "1", "-", "0", "1", "1">>

Squat == <<"S", "q", "u", "a", "t">>

RowBent == <<"R", "o", "w", ",", " ", "b", "e", "n", "t">>

\* Thirty-one characters: one more than the exercise field holds.
LongName ==
  <<"B", "u", "l", "g", "a", "r", "i", "a", "n", " ", "s", "p", "l", "i", "t", " ">>
    \o <<"s", "q", "u", "a", "t", ",", " ", "w", "e", "i", "g", "h", "t", "e", "d">>

\* What the user may type into the five entry widgets during a session.
Forms ==
  { Form(Day1, Squat, <<"3">>, <<"5">>, <<"1", "0", "0", ".", "0">>),
    Form(Day1, Squat, <<"3">>, <<"8">>, <<"1", "0", "0", ".", "0">>),
    Form(Day1, RowBent, <<"6", "5", "5", "3", "6">>, <<"6", "5", "5", "3", "6">>, <<"0", ".", "2", "9">>),
    Form(DayLong, LongName, <<"1">>, <<"1">>, <<"0">>),
    Form(Day1, Squat, <<"0">>, <<"5">>, <<"1", "0", "0", ".", "0">>) }

\* What the user may type when the input handling is exercised: the
\* boundary weight 0, integers beyond 32 bits, nan, and every way an input
\* can be invalid.
InputForms ==
  { Form(Day1, RowBent, <<"2">>, <<"1">>, <<"0">>),
    Form(DayLong, Squat, <<"2", "1", "4", "7", "4", "8", "3", "6", "4", "8">>, <<"2">>, <<"1">>),
    Form(Day1, Squat, <<"3">>, <<"5">>, <<"n", "a", "n">>),
    Form(Day1, <<" ", " ">>, <<"3">>, <<"5">>, <<"1", "0", "0", ".", "0">>),
    Form(Day1, <<>>, <<"3">>, <<"5">>, <<"1", "0", "0", ".", "0">>),
    Form(Day1, Squat, <<"0">>, <<"5">>, <<"1", "0", "0", ".", "0">>),
    Form(Day1, Squat, <<"3">>, <<"-", "1">>, <<"1", "0", "0", ".", "0">>),
    Form(Day1, Squat, <<"3">>, <<"5">>, <<"-", "0", ".", "0", "1">>),
    Form(Day1, Squat, <<"a", "b", "c">>, <<"5">>, <<"1", "0", "0", ".", "0">>),
    Form(Day1, Squat, <<"3">>, <<"3", ".", "5">>, <<"1", "0", "0", ".", "0">>),
    Form(Day1, Squat, <<"3">>, <<"5">>, <<>>) }

\* The persisted file at start-up: absent, or its lines.
GoodLine == <<"2", "0", "2", "4", "-", "0", "1", "-", "0", "1", ",", "S", "q", "u", "a", "t", ",", "3", ",", "5", ",", "1", "0", "0", ".", "0", "0">>

ShortLine == <<"2", "0", "2", "4", "-", "0", "1", "-", "0", "2", ",", "D", "e", "a", "d", "l", "i", "f", "t", ",", "5", ",", "5">>

ZeroSetsLine == <<"2", "0", "2", "4", "-", "0", "1", "-", "0", "3", ",", "P", "l", "a", "n", "k", ",", "0", ",", "1", ",", "0", ".", "0", "0">>

BadSetsLine == <<"2", "0", "2", "4", "-", "0", "1", "-", "0", "4", ",", "C", "u", "r", "l", ",", "a", "b", "c", ",", "1", "2", ",", "1", "0", ".", "0", "0">>

HeaderLine == CsvWriteRow(HeaderFields)

NoFile == [exists |-> FALSE, lines |-> <<>>]

Files ==
  { NoFile,
    [exists |-> TRUE, lines |-> <<HeaderLine, GoodLine, ShortLine, ZeroSetsLine>>],
    [exists |-> TRUE, lines |-> <<HeaderLine, GoodLine, BadSetsLine>>] }

(* -------------------------------- state ------------------------------- *)

VARIABLES
  file,            \* the file at log_path: [exists, lines]
  session_log,     \* the record array, a sequence of rows
  selected_index,  \* None or a 0-based position
  buttons,         \* state of Load / Update / Delete Selected
  entries,         \* text of the five entry widgets
  log_tree,        \* iids of the rows shown in the table
  volume_var,      \* the total volume shown
  entries_var,     \* the number of sets shown
  dialog,          \* title of the last message box shown, "" for none
  fresh,           \* TRUE until the first handler runs
  uncaught,        \* the exception that left the last handler, "" for none
  running,         \* FALSE once the window is destroyed
  file0,           \* history: the file as it was at start-up
  origin,          \* history: per row of session_log, its row of file0 (0: none)
  removed          \* history: rows of file0 the user deleted or updated

vars ==
  << file, session_log, selected_index, buttons, entries, log_tree, volume_var,
     entries_var, dialog, fresh, uncaught, running, file0, origin, removed >>

\* self.selected_index = None
None == -1

Today == Day1

(* --------------------------- input validation ------------------------- *)

\* raw_data = {key: self.entries[key].get().strip() ...}, then int(), int(),
\* float().  ok = FALSE: one of them raised ValueError.
\* ok = FALSE: one of int(), int(), float() raised ValueError.
Parsed(date, exercise, ps, pr, pw) ==
  [ok       |-> ps.ok /\ pr.ok /\ pw.ok,
   date     |-> date,
   exercise |-> exercise,
   sets     |-> ps,
   reps     |-> pr,
   weight   |-> pw]

ParseEntries(e) ==
  Parsed(Strip(e.date), Strip(e.exercise), PyInt(Strip(e.sets)), PyInt(Strip(e.reps)),
         PyFloat(Strip(e.weight)))

\* The validation without its weight < 0 test.
RejectedIgnoringWeight(t) ==
  \/ ~t.ok
  \/ PyIntLeqZero(t.sets)
  \/ PyIntLeqZero(t.reps)
  \/ t.exercise = <<>>

\* if sets <= 0 or reps <= 0 or weight < 0 or not exercise: raise ValueError
Rejected(t) ==
  \/ ~t.ok
  \/ PyIntLeqZero(t.sets)
  \/ PyIntLeqZero(t.reps)
  \/ PyFloatLtZero(t.weight)
  \/ t.exercise = <<>>

\* Whether the NumPy in use wraps an out-of-range integer makes a difference
\* only when one is assigned.
Builds(t) ==
  IF t.ok /\ \E p \in {t.sets, t.reps} : ~FitsI4(p) /\ FitsCLong(p)
  THEN BOOLEAN
  ELSE {TRUE}

\* The tuple (date, exercise, sets, reps, weight) converted to DTYPE.
\* err: a conversion raised OverflowError; at: the field that raised.
CastFields(t, s, r) ==
  [err |-> s.err \/ r.err,
   at  |-> IF s.err THEN "sets" ELSE IF r.err THEN "reps" ELSE "",
   rec |-> [date     |-> CastU(t.date, DateLen),
            exercise |-> CastU(t.exercise, ExerciseLen),
            sets     |-> s.v,
            reps     |-> r.v,
            weight   |-> CastF4(t.weight)]]

CastRow(t, wraps) == CastFields(t, CastI4(t.sets, wraps), CastI4(t.reps, wraps))

(* ------------------------------ persistence --------------------------- *)

\* (row[0], row[1], int(row[2]), int(row[3]), float(row[4]))
ParseFileRow(row) == Parsed(row[1], row[2], PyInt(row[3]), PyInt(row[4]), PyFloat(row[5]))

\* The rows after the first two.
DataRowsSkipTwo(f) ==
  LET rows == CsvReader(f.lines)
  IN  IF Len(rows) <= 2 THEN <<>> ELSE Tail(Tail(rows))

\* The rows after the first (next(reader, None)) that have five fields.
DataRows(f) ==
  LET rows == CsvReader(f.lines)
  IN  IF rows = <<>> THEN <<>> ELSE Tail(rows)

FiveFieldRows(f) == SelectSeq(DataRows(f), LAMBDA row : Len(row) = 5)

\* _load_data: the empty array when the file is absent; the five-field rows
\* converted to DTYPE; the empty array and a "Data Load Error" box when
\* anything raises (open fails: ~readable; int() or float() raises; a
\* conversion to DTYPE raises).
LoadFailed == [log |-> <<>>, dialog |-> "Data Load Error"]

\* np.array(data_list, dtype=self.DTYPE), cast being the rows converted.
LoadArray(cast) ==
  IF \E i \in 1..Len(cast) : cast[i].err
  THEN LoadFailed
  ELSE [log |-> [i \in 1..Len(cast) |-> cast[i].rec], dialog |-> ""]

\* data_list, parsed being the five-field rows through int() and float().
LoadParsed(parsed, wraps) ==
  IF \E i \in 1..Len(parsed) : ~parsed[i].ok
  THEN LoadFailed
  ELSE LoadArray([i \in 1..Len(parsed) |-> CastRow(parsed[i], wraps)])

LoadRows(rows, wraps) ==
  LoadParsed([i \in 1..Len(rows) |-> ParseFileRow(rows[i])], wraps)

LoadData(f, readable, wraps) ==
  IF ~f.exists
  THEN [log |-> <<>>, dialog |-> ""]
  ELSE IF ~readable THEN LoadFailed ELSE LoadRows(FiveFieldRows(f), wraps)

\* The lines _save_data writes: the header, then one line per row with the
\* weight as "%.2f".
SaveLines(log) ==
  <<CsvWriteRow(HeaderFields)>>
    \o [i \in 1..Len(log) |->
          CsvWriteRow(<< log[i].date, log[i].exercise, IntToStr(log[i].sets),
                         IntToStr(log[i].reps), FormatF2(log[i].weight) >>)]

\* _save_data, written lines being how far it got: -1 when open(..., 'w')
\* raised (the file is untouched), all of them on success, fewer when a
\* write raised after open() had truncated the file.
SaveData(f, log, written) ==
  IF written < 0
  THEN f
  ELSE [exists |-> TRUE, lines |-> SubSeq(SaveLines(log), 1, written)]

(* ------------------------------- handlers ----------------------------- *)

\* update_all_displays: the table holds one item per row, iid str(idx);
\* the summary is recomputed.
update_all_displays(log) ==
  /\ log_tree' = [i \in 1..Len(log) |-> i - 1]
  /\ volume_var' = calculate_total_volume(log)
  /\ entries_var' = Len(log)

\* __init__: load, no selection, the three buttons disabled, today's date
\* in the date entry, then update_all_displays.
\* For each of the n rows loaded, which of rows (the data rows of the
\* file) it was read from: the i-th that has five fields.
OriginOf(rows, n) ==
  [i \in 1..n |->
     CHOOSE k \in 1..Len(rows) :
       /\ Len(rows[k]) = 5
       /\ Cardinality({j \in 1..k : Len(rows[j]) = 5}) = i]

InitOn(fs) ==
  \E f \in fs, readable \in BOOLEAN, wraps \in BOOLEAN :
    \E l \in {LoadData(f, readable, wraps)} :
      /\ file = f
      /\ file0 = f
      /\ session_log = l.log
      /\ origin = OriginOf(DataRows(f), Len(l.log))
      /\ removed = {}
      /\ selected_index = None
      /\ buttons = "disabled"
      /\ entries = Form(Today, <<>>, <<>>, <<>>, <<>>)
      /\ log_tree = [i \in 1..Len(l.log) |-> i - 1]
      /\ volume_var = calculate_total_volume(l.log)
      /\ entries_var = Len(l.log)
      /\ dialog = l.dialog
      /\ fresh = TRUE
      /\ uncaught = ""
      /\ running = TRUE

Init == InitOn(Files)

\* The user edits the entry widgets.
type_inputs(f) ==
  /\ running
  /\ fresh' = FALSE
  /\ entries' = f
  /\ dialog' = ""
  /\ uncaught' = ""
  /\ UNCHANGED << file, session_log, selected_index, buttons, log_tree, volume_var,
                  entries_var, running, file0, origin, removed >>

\* np.concatenate([log, new_entry])
NpConcatenateSwapped(log, new_entry) == new_entry \o log

NpConcatenate(log, new_entry) == log \o new_entry

\* add_workout_entry.  ValueError is caught ("Invalid Input"); an
\* OverflowError of np.array leaves the handler, nothing assigned.
add_workout_entry(wraps) ==
  LET t == ParseEntries(entries)
      c == CastRow(t, wraps)
  IN  /\ running
      /\ Len(session_log) < MaxRecords
      /\ UNCHANGED << file, selected_index, buttons, running, file0, removed >>
      /\ fresh' = FALSE
      /\ wraps \in Builds(t)
      /\ IF Rejected(t)
         THEN /\ dialog' = "Invalid Input"
              /\ uncaught' = ""
              /\ UNCHANGED << session_log, origin, entries, log_tree, volume_var,
                              entries_var >>
         ELSE IF c.err
              THEN /\ dialog' = ""
                   /\ uncaught' = "OverflowError"
                   /\ UNCHANGED << session_log, origin, entries, log_tree, volume_var,
                                   entries_var >>
              ELSE /\ session_log' = NpConcatenate(session_log, <<c.rec>>)
                   /\ origin' = Append(origin, 0)
                   /\ entries' = Form(entries.date, <<>>, <<>>, <<>>, <<>>)
                   /\ update_all_displays(session_log')
                   /\ dialog' = "Set Added Successfully"
                   /\ uncaught' = ""

\* analyze_performance
analyze_performance ==
  /\ running
  /\ fresh' = FALSE
  /\ volume_var' = calculate_total_volume(session_log)
  /\ entries_var' = Len(session_log)
  /\ dialog' = "Analysis Complete"
  /\ uncaught' = ""
  /\ UNCHANGED << file, session_log, selected_index, buttons, entries, log_tree,
                  running, file0, origin, removed >>

\* _on_row_select, on <<TreeviewSelect>>: the user has changed the table's
\* selection, or the items were rebuilt and the selection is empty.  first
\* is selection[0], the iid of the first selected item, None for an empty
\* selection.
on_row_select(first) ==
  /\ running
  /\ fresh' = FALSE
  /\ first = None \/ \E i \in 1..Len(log_tree) : log_tree[i] = first
  /\ IF first = None
     THEN selected_index' = None /\ buttons' = "disabled"
     ELSE selected_index' = first /\ buttons' = "normal"
  /\ dialog' = ""
  /\ uncaught' = ""
  /\ UNCHANGED << file, session_log, entries, log_tree, volume_var, entries_var,
                  running, file0, origin, removed >>

\* self.session_log[self.selected_index] resolves.
Resolves(i, log) == 0 <= i /\ i < Len(log)

\* load_selected_into_inputs (the button is enabled)
load_selected_into_inputs ==
  /\ running
  /\ fresh' = FALSE
  /\ buttons = "normal"
  /\ IF selected_index = None
     THEN dialog' = "No Selection" /\ uncaught' = "" /\ UNCHANGED entries
     ELSE IF ~Resolves(selected_index, session_log)
          THEN dialog' = "" /\ uncaught' = "IndexError" /\ UNCHANGED entries
          ELSE LET row == session_log[selected_index + 1]
               IN  /\ entries' = Form(row.date, row.exercise, IntToStr(row.sets),
                                      IntToStr(row.reps), FormatF2(row.weight))
                   /\ dialog' = ""
                   /\ uncaught' = ""
  /\ UNCHANGED << file, session_log, selected_index, buttons, log_tree, volume_var,
                  entries_var, running, file0, origin, removed >>

\* The row after session_log[i] = (date, exercise, sets, reps, weight): the
\* fields are assigned in order, and those before the one that raised stay
\* assigned.
AssignRow(old, c) ==
  IF ~c.err THEN c.rec
  ELSE IF c.at = "sets"
       THEN [old EXCEPT !.date = c.rec.date, !.exercise = c.rec.exercise]
       ELSE [old EXCEPT !.date = c.rec.date, !.exercise = c.rec.exercise,
                        !.sets = c.rec.sets]

\* log[i] = row, i a 0-based position that resolves.
SetItemEverywhere(log, i, row) == [j \in 1..Len(log) |-> row]

SetItem(log, i, row) == [log EXCEPT ![i + 1] = row]

\* update_selected_entry (the button is enabled)
update_selected_entry(wraps) ==
  LET t == ParseEntries(entries)
      c == CastRow(t, wraps)
      i == selected_index + 1
  IN  /\ running
      /\ buttons = "normal"
      /\ UNCHANGED << file, selected_index, buttons, entries, running, file0 >>
      /\ fresh' = FALSE
      /\ wraps \in Builds(t)
      /\ IF selected_index = None
         THEN /\ dialog' = "No Selection"
              /\ uncaught' = ""
              /\ UNCHANGED << session_log, origin, removed, log_tree, volume_var,
                              entries_var >>
         ELSE IF Rejected(t)
              THEN /\ dialog' = "Invalid Input"
                   /\ uncaught' = ""
                   /\ UNCHANGED << session_log, origin, removed, log_tree, volume_var,
                                   entries_var >>
              ELSE IF ~Resolves(selected_index, session_log)
                   THEN /\ dialog' = ""
                        /\ uncaught' = "IndexError"
                        /\ UNCHANGED << session_log, origin, removed, log_tree,
                                        volume_var, entries_var >>
                   ELSE /\ session_log' =
                             SetItem(session_log, selected_index,
                                     AssignRow(session_log[i], c))
                        /\ origin' = [origin EXCEPT ![i] = 0]
                        /\ removed' = removed \cup ({origin[i]} \ {0})
                        /\ IF c.err
                           THEN /\ dialog' = ""
                                /\ uncaught' = "OverflowError"
                                /\ UNCHANGED << log_tree, volume_var, entries_var >>
                           ELSE /\ update_all_displays(session_log')
                                /\ dialog' = "Updated"
                                /\ uncaught' = ""

\* The row after position i removed instead of the row at i.
NpDeleteAfter(log, i) == SubSeq(log, 1, i + 1) \o SubSeq(log, i + 3, Len(log))

\* np.delete(log, i, axis=0)
NpDelete(log, i) == SubSeq(log, 1, i) \o SubSeq(log, i + 2, Len(log))

\* delete_selected without self.selected_index = None and without the
\* buttons being disabled.
delete_selected_keeping_selection(confirm) ==
  /\ running
  /\ fresh' = FALSE
  /\ buttons = "normal"
  /\ uncaught' = ""
  /\ IF selected_index = None
     THEN /\ dialog' = "No Selection"
          /\ UNCHANGED << session_log, origin, removed, log_tree, volume_var,
                          entries_var >>
     ELSE IF ~confirm
          THEN /\ dialog' = "Delete Set"
               /\ UNCHANGED << session_log, origin, removed, log_tree, volume_var,
                               entries_var >>
          ELSE IF ~(0 <= selected_index /\ selected_index < Len(session_log))
               THEN /\ dialog' = "Delete Error"
                    /\ UNCHANGED << session_log, origin, removed, log_tree,
                                    volume_var, entries_var >>
               ELSE /\ session_log' = SubSeq(session_log, 1, selected_index)
                                        \o SubSeq(session_log, selected_index + 2,
                                                  Len(session_log))
                    /\ origin' = SubSeq(origin, 1, selected_index)
                                   \o SubSeq(origin, selected_index + 2, Len(origin))
                    /\ removed' = removed \cup ({origin[selected_index + 1]} \ {0})
                    /\ update_all_displays(session_log')
                    /\ dialog' = "Deleted"
  /\ UNCHANGED << file, entries, running, file0, selected_index, buttons >>

\* delete_selected (the button is enabled); confirm is the user's answer.
delete_selected(confirm) ==
  /\ running
  /\ fresh' = FALSE
  /\ buttons = "normal"
  /\ uncaught' = ""
  /\ IF selected_index = None
     THEN /\ dialog' = "No Selection"
          /\ UNCHANGED << session_log, origin, removed, selected_index, buttons,
                          log_tree, volume_var, entries_var >>
     ELSE IF ~confirm
          THEN /\ dialog' = "Delete Set"
               /\ UNCHANGED << session_log, origin, removed, selected_index, buttons,
                               log_tree, volume_var, entries_var >>
          ELSE IF ~Resolves(selected_index, session_log)
               THEN /\ dialog' = "Delete Error"
                    /\ UNCHANGED << session_log, origin, removed, selected_index,
                                    buttons, log_tree, volume_var, entries_var >>
               ELSE /\ session_log' = NpDelete(session_log, selected_index)
                    /\ origin' = NpDelete(origin, selected_index)
                    /\ removed' = removed \cup ({origin[selected_index + 1]} \ {0})
                    /\ selected_index' = None
                    /\ update_all_displays(session_log')
                    /\ buttons' = "disabled"
                    /\ dialog' = "Deleted"
  /\ UNCHANGED << file, entries, running, file0 >>

\* on_closing; confirm is the user's answer, written how far the save got.
\* destroy() takes the widgets with it.
on_closing(confirm, written) ==
  /\ running
  /\ fresh' = FALSE
  /\ uncaught' = ""
  /\ IF ~confirm
     THEN /\ written = -1
          /\ dialog' = "Exit Fitness Tracker"
          /\ UNCHANGED << file, running, buttons, entries, log_tree >>
     ELSE /\ written \in -1..(Len(session_log) + 1)
          /\ file' = SaveData(file, session_log, written)
          /\ dialog' = IF written = Len(session_log) + 1
                       THEN "Exit Fitness Tracker"
                       ELSE "Data Save Error"
          /\ running' = FALSE
          /\ buttons' = "disabled"
          /\ entries' = Form(<<>>, <<>>, <<>>, <<>>, <<>>)
          /\ log_tree' = <<>>
  /\ UNCHANGED << session_log, selected_index, volume_var, entries_var, file0,
                  origin, removed >>

NextOn(forms) ==
  \/ \E f \in forms : type_inputs(f)
  \/ \E wraps \in BOOLEAN : add_workout_entry(wraps)
  \/ analyze_performance
  \/ \E first \in {None} \cup (0..(MaxRecords - 1)) : on_row_select(first)
  \/ load_selected_into_inputs
  \/ \E wraps \in BOOLEAN : update_selected_entry(wraps)
  \/ \E confirm \in BOOLEAN : delete_selected(confirm)
  \/ \E confirm \in BOOLEAN, written \in -1..(MaxRecords + 1) : on_closing(confirm, written)

Next == NextOn(Forms)

\* A session from any of the files, the user typing the session's forms.
Spec == Init /\ [][Next]_vars

InitInput == InitOn({NoFile})

NextInput == NextOn(InputForms)

\* A session from no file, the user typing the forms of the input handling.
SpecInput == InitInput /\ [][NextInput]_vars

(* ------------------------------ properties ---------------------------- *)

\* A step of the Add Set button and of the Update Selected button.
AddStep == \E wraps \in BOOLEAN : add_workout_entry(wraps)

UpdateStep == \E wraps \in BOOLEAN : update_selected_entry(wraps)

\* The Record invariants: exercise non-empty, sets > 0, reps > 0, weight >= 0.
ValidRecord(r) ==
  /\ r.exercise # <<>>
  /\ r.sets > 0
  /\ r.reps > 0
  /\ F4GeqZero(r.weight)

AllValid(log) == \A i \in 1..Len(log) : ValidRecord(log[i])

\* C1: in every reachable state, every record of the store satisfies the
\* Record invariants (exercise non-empty, sets > 0, reps > 0, weight >= 0),
\* whatever five-field numeric rows the persisted file held.
C1_StoreHoldsValidRecords == AllValid(session_log)

\* The input classes the validation has to refuse, read off the text of
\* the entry widgets.
InvalidInput(e) ==
  \/ Strip(e.exercise) = <<>>
  \/ ~PyInt(Strip(e.sets)).ok
  \/ ~PyInt(Strip(e.reps)).ok
  \/ ~PyFloat(Strip(e.weight)).ok
  \/ PyIntLeqZero(PyInt(Strip(e.sets)))
  \/ PyIntLeqZero(PyInt(Strip(e.reps)))
  \/ PyFloatLtZero(PyFloat(Strip(e.weight)))

\* Weight 0 and the other fields valid (sets and reps within 32 bits).
ZeroWeightInput(e) ==
  /\ ~InvalidInput(e)
  /\ ~PyFloat(Strip(e.weight)).nan
  /\ PyFloat(Strip(e.weight)).n = 0
  /\ FitsI4(PyInt(Strip(e.sets)))
  /\ FitsI4(PyInt(Strip(e.reps)))

\* C2: an add or an update whose input has an empty or blank exercise,
\* sets <= 0, reps <= 0, weight < 0 or a numeric field that does not parse
\* is answered with the "Invalid Input" box and leaves the store as it was;
\* an input with weight 0 and otherwise valid fields is accepted and stored.
C2_InvalidInputRejected ==
  [][ /\ AddStep
         => /\ InvalidInput(entries)
               => (dialog' = "Invalid Input" /\ session_log' = session_log)
            /\ ZeroWeightInput(entries)
               => /\ dialog' = "Set Added Successfully"
                  /\ Len(session_log') = Len(session_log) + 1
                  /\ session_log'[Len(session_log')].weight.m = 0
      /\ (selected_index # None /\ UpdateStep)
         => /\ InvalidInput(entries)
               => (dialog' = "Invalid Input" /\ session_log' = session_log)
            /\ ZeroWeightInput(entries)
               => /\ dialog' = "Updated"
                  /\ session_log'[selected_index + 1].weight.m = 0
    ]_vars

\* An invalid input has been refused while the store holds a record that
\* was accepted with weight 0 and a row is selected.
C2_Witness ==
  /\ dialog = "Invalid Input"
  /\ InvalidInput(entries)
  /\ selected_index # None
  /\ \E i \in 1..Len(session_log) :
       ~session_log[i].weight.nan /\ session_log[i].weight.m = 0

\* The float32 w is exactly the decimal literal x.
F4IsExactly(w, x) ==
  /\ ~w.nan
  /\ ~x.nan
  /\ (w.m # 0 => w.neg = x.neg)
  /\ WMulInt(WOfF4([w EXCEPT !.neg = FALSE]), x.D) = WOfInt(x.n)

\* The stored row rec equals, field by field, the record t the user typed.
TypedEquals(rec, t) ==
  /\ rec.date = t.date
  /\ rec.exercise = t.exercise
  /\ FitsI4(t.sets) /\ rec.sets = Low32(t.sets)
  /\ FitsI4(t.reps) /\ rec.reps = Low32(t.reps)
  /\ F4IsExactly(rec.weight, t.weight)

\* The record t fits the fields of the store: a date of at most 10
\* characters, an exercise of at most 30, sets and reps within 32 bits, a
\* weight that single precision holds exactly.
FitsFields(t) ==
  /\ Len(t.date) <= DateLen
  /\ Len(t.exercise) <= ExerciseLen
  /\ FitsI4(t.sets)
  /\ FitsI4(t.reps)
  /\ F4IsExactly(CastF4(t.weight), t.weight)

\* The first n characters of s.
Cut(s, n) == IF Len(s) <= n THEN s ELSE SubSeq(s, 1, n)

\* The store after the step is the store before it followed by one row.
Appended ==
  /\ Len(session_log') = Len(session_log) + 1
  /\ SubSeq(session_log', 1, Len(session_log)) = session_log

\* C3 as stated: a successful add of any valid record r (any date string,
\* any non-empty exercise text) grows the store by one, leaves the earlier
\* positions unchanged and puts at the last position a record equal to r in
\* all five fields.
C3_AddAppendsTypedRecord ==
  [][ (dialog' = "Set Added Successfully" /\ AddStep)
        => /\ Appended
           /\ TypedEquals(session_log'[Len(session_log')], ParseEntries(entries))
    ]_vars

\* C3 amended: a successful add grows the store by one, leaves the earlier
\* positions unchanged and puts at the last position r with its date cut
\* to 10 characters, its exercise cut to 30 and its weight rounded to single
\* precision; the record equals r in all five fields when r fits the fields.
C3_AddAppendsStoredRecord ==
  [][ (dialog' = "Set Added Successfully" /\ AddStep)
        => LET t    == ParseEntries(entries)
               last == session_log'[Len(session_log')]
           IN  /\ Appended
               /\ last.date = Cut(t.date, 10)
               /\ last.exercise = Cut(t.exercise, 30)
               /\ FitsI4(t.sets) => last.sets = Low32(t.sets)
               /\ FitsI4(t.reps) => last.reps = Low32(t.reps)
               /\ last.weight = CastF4(t.weight)
               /\ FitsFields(t) => TypedEquals(last, t)
    ]_vars

\* A record with an 11-character date and a 31-character exercise has been
\* added after another one, and is held cut to 10 and 30 characters.
C3_Witness ==
  /\ dialog = "Set Added Successfully"
  /\ Len(session_log) >= 2
  /\ entries.date = DayLong
  /\ session_log[Len(session_log)].date = Day1
  /\ Len(session_log[Len(session_log)].exercise) = 30

\* C4: a confirmed delete of the selected position i of a store of n
\* records leaves n-1 records, positions below i unchanged and each
\* position j >= i holding the record that was at j+1; a declined delete
\* leaves the store unchanged.
C4_DeleteShifts ==
  [][ /\ (dialog' = "Deleted" /\ delete_selected(TRUE))
         => /\ Resolves(selected_index, session_log)
            /\ Len(session_log') = Len(session_log) - 1
            /\ \A j \in 0..(Len(session_log') - 1) :
                 session_log'[j + 1] = IF j < selected_index
                                       THEN session_log[j + 1]
                                       ELSE session_log[j + 2]
      /\ (dialog' = "Delete Set" /\ delete_selected(FALSE))
         => session_log' = session_log
    ]_vars

\* The first row of the file has been deleted and its third row, loaded at
\* position 1, is now at position 0.
C4_Witness ==
  /\ dialog = "Deleted"
  /\ Len(session_log) >= 1
  /\ origin[1] = 3
  /\ 1 \in removed

RECURSIVE MathVolume(_)
MathVolume(log) ==
  IF log = <<>>
  THEN WZero
  ELSE WAdd(MathVolume(Tail(log)),
            WMulInt(WMulInt(WOfF4(Head(log).weight), Head(log).sets), Head(log).reps))

\* C6: for every store whose records satisfy the Record invariants, with
\* any positive 32-bit sets and reps, the total volume computed, and the one
\* shown after each add, update and delete, is the mathematical sum of
\* sets * reps * weight, 0.0 for the empty store.
C6_VolumeIsMathematicalSum ==
  AllValid(session_log)
    => /\ calculate_total_volume(session_log) =
            [nan |-> FALSE, v |-> MathVolume(session_log)]
       /\ dialog \in {"Set Added Successfully", "Updated", "Deleted"}
            => volume_var = [nan |-> FALSE, v |-> MathVolume(session_log)]

\* The float32 w is the single-precision value of a decimal with at most
\* two fractional digits: of c/100 for one of the two integers c around
\* 100 * |w|.
HasTwoDecimals(w) ==
  /\ ~w.nan
  /\ LET N == w.m * 100
         k == -w.e
         c == IF k <= 0 THEN N * 2^(-k) ELSE IF k > 30 THEN 0 ELSE N \div 2^k
     IN  \E d \in {c, c + 1} :
           CastF4([ok |-> TRUE, nan |-> FALSE, neg |-> w.neg, n |-> d, D |-> 100]) = w

\* The window is destroyed and the save wrote every line.
Saved == ~running /\ dialog = "Exit Fitness Tracker"

\* A store the round trip is stated for.
RoundTrips(log) ==
  /\ AllValid(log)
  /\ \A i \in 1..Len(log) : HasTwoDecimals(log[i].weight)

\* C7: when the store holds records that satisfy the Record invariants and
\* whose weights have at most two fractional digits, loading the file the
\* save wrote gives the same store: as many records, in the same order,
\* each equal in date, exercise, sets, reps and weight.
C7_SaveLoadRoundTrip ==
  (Saved /\ RoundTrips(session_log))
    => \A wraps \in BOOLEAN :
         LoadData(file, TRUE, wraps) = [log |-> session_log, dialog |-> ""]

\* A saved store holding a row whose exercise needs quoting and whose
\* weight 0.29 is not a binary fraction.
C7_Witness ==
  /\ Saved
  /\ RoundTrips(session_log)
  /\ \E i \in 1..Len(session_log) :
       /\ session_log[i].exercise = RowBent
       /\ FormatF2(session_log[i].weight) = <<"0", ".", "2", "9">>

\* The rows of the file after its header row.
RowsOfFile(f) ==
  LET rows == CsvReader(f.lines)
  IN  IF Len(rows) <= 1 THEN <<>> ELSE SubSeq(rows, 2, Len(rows))

\* Five fields, the third and fourth an integer, the fifth a number.
WellFormedRow(row) ==
  /\ Len(row) = 5
  /\ PyInt(row[3]).ok
  /\ PyInt(row[4]).ok
  /\ PyFloat(row[5]).ok

\* The well-formed rows of the file, in file order, as records.
WellFormedRecords(f, wraps) ==
  LET good == SelectSeq(RowsOfFile(f), WellFormedRow)
  IN  [i \in 1..Len(good) |-> CastRow(ParseFileRow(good[i]), wraps).rec]

\* C8: whatever the file holds, the load ends with no exception escaping
\* and the store is either empty or the file's well-formed rows in file
\* order, the malformed ones left out; a missing file gives the empty store.
C8_LoadReturnsNormally ==
  fresh => /\ uncaught = ""
           /\ dialog \in {"", "Data Load Error"}
           /\ ~file.exists => session_log = <<>>
           /\ \/ session_log = <<>>
              \/ \E wraps \in BOOLEAN : session_log = WellFormedRecords(file, wraps)

\* Just loaded: a file with a four-field row between two well-formed rows,
\* and the store holds the two.
C8_Witness ==
  /\ fresh
  /\ Len(session_log) = 2
  /\ Len(RowsOfFile(file)) = 3
  /\ \E k \in 1..Len(RowsOfFile(file)) : ~WellFormedRow(RowsOfFile(file)[k])

\* C9: after a confirmed shutdown, every well-formed row the file held at
\* start-up that the user neither deleted nor updated is still a row of
\* the file, also when the load met a malformed row and when the save
\* failed partway; a failed save is reported.
C9_NoDataLoss ==
  ~running
    => /\ \A k \in 1..Len(RowsOfFile(file0)) :
            (WellFormedRow(RowsOfFile(file0)[k]) /\ k \notin removed)
              => \E j \in 1..Len(RowsOfFile(file)) :
                   RowsOfFile(file)[j] = RowsOfFile(file0)[k]
       /\ file # SaveData(file0, session_log, Len(session_log) + 1)
            => dialog = "Data Save Error"

\* C10: in every reachable state the selected index is None or a position
\* of the store; a delete clears the selection; no load-selected, update or
\* delete has run with an index that does not resolve to a record.
C10_SelectionResolves ==
  /\ selected_index = None \/ Resolves(selected_index, session_log)
  /\ buttons = "normal" => selected_index # None
  /\ dialog = "Deleted" => selected_index = None
  /\ uncaught # "IndexError"
  /\ dialog # "Delete Error"

\* A row of a store of two has been deleted: the selection is cleared, the
\* buttons are disabled and one row is left.
C10_Witness ==
  /\ dialog = "Deleted"
  /\ selected_index = None
  /\ buttons = "disabled"
  /\ Len(session_log) >= 1

====
